---- MODULE Spec2Model ----
(***************************************************************************)
(* The generator store of stable-ui (src/unnamed/part_000): the job        *)
(* submission / poll / cancel protocol of generateImage, the shared store  *)
(* refs it reads and writes, and the callbacks that run between its        *)
(* awaits (other generateImage calls, the fire-and-forget cancelImage      *)
(* calls of generationFailed, the timer-driven updateAvailableModels, the  *)
(* user's edits).                                                          *)
(*                                                                         *)
(* JavaScript runs one callback at a time, to its next await: every action *)
(* below is one such callback (a user event, a timer, the arrival of a     *)
(* response) with the whole synchronous continuation that follows it.      *)
(* The code of a callback is written as operators from a machine record m  *)
(* (all the variables) to the machine record after it; an action commits   *)
(* the record its code returns.                                            *)
(***************************************************************************)
EXTENDS Integers, Sequences, FiniteSets, TLC

\* ---------------------------------------------------------------- bounds
\* number of generateImage invocations in a behaviour
MaxCalls == 2
\* largest number of generations one status/cancel response carries
MaxGen == 2
\* number of firings of the setInterval(updateAvailableModels) timer
MaxTicks == 1
\* number of edits the user makes to the store in a behaviour
MaxEdits == 2
\* number of generateImage invocations where the user also edits the store
EditCalls == 1

Calls == 1..MaxCalls
\* the server assigns every submitted job a fresh id: the job of call c is c
Jobs == Calls

\* ------------------------------------------------------- program constants
defaultSteps == 30
defaultWidth == 512
defaultHeight == 512
goodSubmit == 202
goodStatus == 200
upscale == 4

VARIABLES
    \* refs of the generator store
    generatorType, prompt, negativePrompt, params, postProcessors,
    inpainting, img2img, generating, cancelled, images, queue, waitData,
    availableModels, modelsJSON, modelsData,
    \* the options store's allowLargerParams = "Enabled", the number of
    \* uiStore.raiseWarning calls
    allowLargerParams, warned,
    \* the collaborators the store writes to: uiStore.progress, the number of
    \* uiStore.raiseError calls, outputStore.outputs
    progress, raised, outputs,
    \* the activations of generateImage: where each one is suspended and
    \* its locals
    pc, paramsCached, iter, queueCached, fi, allImages, result,
    \* the requests in flight, the server's jobs, the timer
    net, jobDone, ticks,
    \* the number of edits the user has made
    edits,
    \* history of the run, read by the properties only
    everDone, cancelSeen, cancelJobs, deleted, raisedBy, invalidBy, posts,
    atCall, served, editedIn, loaded, reported, merged

storeVars == <<generatorType, prompt, negativePrompt, params, postProcessors,
               inpainting, img2img, generating, cancelled, images, queue,
               waitData, availableModels, modelsJSON, modelsData,
               allowLargerParams, warned>>
uiVars == <<progress, raised, outputs>>
callVars == <<pc, paramsCached, iter, queueCached, fi, allImages, result>>
envVars == <<net, jobDone, ticks, edits>>
histVars == <<everDone, cancelSeen, cancelJobs, deleted, raisedBy, invalidBy,
              posts, atCall, served, editedIn, loaded, reported, merged>>
vars == <<storeVars, uiVars, callVars, envVars, histVars>>

\* the machine record: every variable, by name
State ==
    [generatorType |-> generatorType, inpainting |-> inpainting,
     img2img |-> img2img, allowLargerParams |-> allowLargerParams,
     warned |-> warned, edits |-> edits,
     prompt |-> prompt, negativePrompt |-> negativePrompt, params |-> params,
     postProcessors |-> postProcessors, generating |-> generating,
     cancelled |-> cancelled, images |-> images, queue |-> queue,
     waitData |-> waitData, availableModels |-> availableModels,
     modelsJSON |-> modelsJSON, modelsData |-> modelsData,
     progress |-> progress, raised |-> raised, outputs |-> outputs,
     pc |-> pc, paramsCached |-> paramsCached, iter |-> iter,
     queueCached |-> queueCached, fi |-> fi, allImages |-> allImages,
     result |-> result, net |-> net, jobDone |-> jobDone, ticks |-> ticks,
     everDone |-> everDone, cancelSeen |-> cancelSeen,
     cancelJobs |-> cancelJobs, deleted |-> deleted, raisedBy |-> raisedBy,
     invalidBy |-> invalidBy, posts |-> posts, atCall |-> atCall,
     served |-> served, editedIn |-> editedIn, loaded |-> loaded,
     reported |-> reported, merged |-> merged]

Commit(m) ==
    /\ generatorType' = m.generatorType
    /\ inpainting' = m.inpainting
    /\ img2img' = m.img2img
    /\ allowLargerParams' = m.allowLargerParams
    /\ warned' = m.warned
    /\ edits' = m.edits
    /\ prompt' = m.prompt
    /\ negativePrompt' = m.negativePrompt
    /\ params' = m.params
    /\ postProcessors' = m.postProcessors
    /\ generating' = m.generating
    /\ cancelled' = m.cancelled
    /\ images' = m.images
    /\ queue' = m.queue
    /\ waitData' = m.waitData
    /\ availableModels' = m.availableModels
    /\ modelsJSON' = m.modelsJSON
    /\ modelsData' = m.modelsData
    /\ progress' = m.progress
    /\ raised' = m.raised
    /\ outputs' = m.outputs
    /\ pc' = m.pc
    /\ paramsCached' = m.paramsCached
    /\ iter' = m.iter
    /\ queueCached' = m.queueCached
    /\ fi' = m.fi
    /\ allImages' = m.allImages
    /\ result' = m.result
    /\ net' = m.net
    /\ jobDone' = m.jobDone
    /\ ticks' = m.ticks
    /\ everDone' = m.everDone
    /\ cancelSeen' = m.cancelSeen
    /\ raisedBy' = m.raisedBy
    /\ cancelJobs' = m.cancelJobs
    /\ deleted' = m.deleted
    /\ invalidBy' = m.invalidBy
    /\ posts' = m.posts
    /\ atCall' = m.atCall
    /\ served' = m.served
    /\ editedIn' = m.editedIn
    /\ loaded' = m.loaded
    /\ reported' = m.reported
    /\ merged' = m.merged

\* ------------------------------------------------------------ data shapes
\* A prompt is a sequence of words; "###" is the word getFullPrompt puts
\* between the prompt and the negative prompt.
Prompts == {<<>>, <<"cat">>, <<"dog">>}
NegativePrompts == {<<>>, <<"blurry">>}
StepsValues == {defaultSteps, 50}
AllPostProcessors == {"RealESRGAN_x4plus"}

\* HTTP responses. body: "object" is a JSON object without a message field
\* (with the expected status: the API's payload), "message" one with a
\* message, "errors" one with message and errors, "null" the JSON value
\* null, "none" a body that is no JSON (response.json() rejects).
Statuses == {goodStatus, goodSubmit, 500}
Responses ==
    {[status |-> s, body |-> b] : s \in Statuses, b \in {"object", "null", "none"}}
    \cup {[status |-> 500, body |-> b] : b \in {"message", "errors"}}

\* what the claims call a valid response: the expected status and a JSON body
ValidResponse(resp, good) == resp.status = good /\ resp.body = "object"

Min(S) == CHOOSE x \in S : \A y \in S : x <= y

getDefaultStore == [steps |-> defaultSteps, width |-> defaultWidth, height |-> defaultHeight]

NoInput ==
    [prompt |-> <<>>,
     params |-> [steps |-> defaultSteps, width |-> defaultWidth,
                 height |-> defaultHeight, post_processing |-> {}]]
NoGens == <<>>
\* lines 99-109: sourceImage and maskImage "", fileList []
NoImage == [sourceImage |-> <<>>, maskImage |-> <<>>, fileList |-> <<>>]
NoStore ==
    [prompt |-> <<>>, negativePrompt |-> <<>>, params |-> getDefaultStore,
     postProcessors |-> {}]
NoIter == [arr |-> <<>>, live |-> FALSE, idx |-> 0]

\* a request in flight: who awaits it (0: updateAvailableModels; detached:
\* nobody, the cancelImage calls of generationFailed), for which job, and for
\* a check whether the job was done when it was sent
Req(c, kind, j, det, dn) ==
    [call |-> c, kind |-> kind, job |-> j, detached |-> det, done |-> dn, data |-> <<>>]

\* fetch(...): the request leaves; the history keeps the jobs a DELETE was
\* sent for
send(m, r) ==
    [m EXCEPT !.net = @ \cup {r},
              !.deleted = IF r.kind = "DELETE" THEN @ \cup {r.job} ELSE @]

\* the request call c awaits
Awaited(c) == {r \in net : r.call = c /\ ~r.detached}

\* ------------------------------------------------ the store's functions
\* getFullPrompt (lines 377-380)
getFullPrompt(m) ==
    IF m.negativePrompt = <<>> THEN m.prompt
    ELSE m.prompt \o <<"###">> \o m.negativePrompt

\* paramsCached (lines 191-206): the prompt, a copy of params, and the
\* postProcessors array (in src/ that ref is only ever replaced, never
\* changed in place). The fields no property reads (nsfw, workers, models,
\* source image) are left out.
cacheParams(m) ==
    [prompt |-> getFullPrompt(m),
     params |-> [steps |-> m.params.steps, width |-> m.params.width,
                 height |-> m.params.height,
                 post_processing |-> m.postProcessors]]

\* validateResponse (lines 494-505): "true", "false" (after
\* onInvalidResponse), or "throw": json.message on a null json is a TypeError
validateResponse(resp, good) ==
    IF resp.status = good /\ resp.body # "null" THEN "true"
    ELSE IF resp.body = "null" THEN "throw"
    ELSE "false"

\* onInvalidResponse (lines 482-489), called for `who`
onInvalidResponse(m, who) ==
    [m EXCEPT !.raised = @ + 1, !.raisedBy[who] = @ + 1, !.progress = 0,
              !.cancelled = FALSE, !.images = <<>>]

\* What a request function returns for a response: "throw" when
\* response.json() rejects, else validateResponse's answer; checkImage
\* (line 451) answers { wait_time: 0, done: false } ("dummy") without
\* validating when cancelled is set.
fetchNewID(resp) ==
    IF resp.body = "none" THEN "throw" ELSE validateResponse(resp, goodSubmit)

checkImage(m, resp) ==
    IF resp.body = "none" THEN "throw"
    ELSE IF m.cancelled THEN "dummy"
    ELSE validateResponse(resp, goodStatus)

\* cancelImage (lines 459-468) and getImageStatus (lines 473-480)
cancelImage(resp) ==
    IF resp.body = "none" THEN "throw" ELSE validateResponse(resp, goodStatus)

getImageStatus(resp) ==
    IF resp.body = "none" THEN "throw" ELSE validateResponse(resp, goodStatus)

\* The effect of a request function's answer on the store (validateResponse
\* calls onInvalidResponse before it returns false); the history counts the
\* responses handled for `who` that were not valid.
handled(m, who, resp, good, ret) ==
    LET m1 == IF ret = "false" THEN onInvalidResponse(m, who) ELSE m
    IN  [m1 EXCEPT !.invalidBy[who] =
                       IF ValidResponse(resp, good) THEN @ ELSE @ + 1]

\* queue.value = [] (lines 236, 266): a new array; a for-of still running
\* over the old one keeps it
emptyQueue(m) ==
    [m EXCEPT !.queue = <<>>,
              !.iter = [c \in Calls |-> [m.iter[c] EXCEPT !.live = FALSE]]]

\* queue.value.push (line 214): a for-of running over this array sees it
pushQueue(m, j) ==
    [m EXCEPT !.queue = Append(@, j),
              !.iter = [c \in Calls |->
                           IF m.iter[c].live
                           THEN [m.iter[c] EXCEPT !.arr = Append(@, j)]
                           ELSE m.iter[c]]]

\* the activation of call c ends: return (or a rejected promise)
leave(m, c, how, res) ==
    [m EXCEPT !.pc[c] = how, !.result[c] = res, !.iter[c] = NoIter,
              !.queueCached[c] = <<>>, !.fi[c] = 0, !.allImages[c] = NoGens]

throw(m, c) == [leave(m, c, "thrown", <<>>) EXCEPT !.served[c] = NoGens]

\* a variant that leaves generating as it is
generationFailedStillGenerating(m, c) ==
    LET ids == {m.queue[i] : i \in 1..Len(m.queue)}
        dels == {Req(c, "DELETE", id, TRUE, FALSE) : id \in ids}
        m1 == [m EXCEPT !.net = @ \cup dels,
                        !.deleted = @ \cup ids, !.served[c] = NoGens]
    IN  leave(emptyQueue(m1), c, "failed", <<>>)

\* generationFailed (lines 263-268): every cancelImage of the forEach sends
\* its DELETE at once and is awaited by nobody
generationFailed(m, c) ==
    LET ids == {m.queue[i] : i \in 1..Len(m.queue)}
        dels == {Req(c, "DELETE", id, TRUE, FALSE) : id \in ids}
        m1 == [m EXCEPT !.generating = FALSE, !.net = @ \cup dels,
                        !.deleted = @ \cup ids, !.served[c] = NoGens]
    IN  leave(emptyQueue(m1), c, "failed", <<>>)

\* one ImageData of generationDone's map (lines 418-437); the id comes from
\* the output store and is left out
ImageData(image) ==
    LET ps == image.input.params
        x4 == IF "RealESRGAN_x4plus" \in ps.post_processing THEN upscale ELSE 1
    IN  [job |-> image.gen.job, k |-> image.gen.k,
         prompt |-> image.input.prompt, steps |-> ps.steps,
         width |-> ps.width * x4, height |-> ps.height * x4,
         post_processing |-> ps.post_processing]

\* a variant that puts the new entries in front of the collection
prependOutputs(outs, finalParams) == finalParams \o outs

\* store.outputs = [...store.outputs, ...finalParams] (line 439)
appendOutputs(outs, finalParams) == outs \o finalParams

\* a variant that leaves cancelled as it is
generationDoneKeepsCancelled(m, c, finalImages) ==
    LET finalParams == [i \in 1..Len(finalImages) |-> ImageData(finalImages[i])]
        m1 == [m EXCEPT !.generating = FALSE, !.progress = 0,
                        !.images = finalParams,
                        !.outputs = appendOutputs(@, finalParams)]
    IN  leave(m1, c, "done", finalParams)

\* generationDone (lines 411-442)
generationDone(m, c, finalImages) ==
    LET finalParams == [i \in 1..Len(finalImages) |-> ImageData(finalImages[i])]
        m1 == [m EXCEPT !.generating = FALSE, !.progress = 0,
                        !.cancelled = FALSE, !.images = finalParams,
                        !.outputs = appendOutputs(@, finalParams)]
    IN  leave(m1, c, "done", finalParams)

\* a variant that reads the store when the call returns, not the snapshot
withInputLive(m, c) ==
    [i \in 1..Len(m.allImages[c]) |->
        [gen |-> m.allImages[c][i], input |-> cacheParams(m)]]

\* allImages.map(el => ({...el, ...paramsCached})) (line 246)
withInput(m, c) ==
    [i \in 1..Len(m.allImages[c]) |->
        [gen |-> m.allImages[c][i], input |-> m.paramsCached[c]]]

\* the for loop over queueCached (lines 238-246), from position fi[c]: the
\* next request is a DELETE or a GET as cancelled is now
finalFor(m, c) ==
    IF m.fi[c] > Len(m.queueCached[c])
    THEN generationDone(m, c, withInput(m, c))
    ELSE LET id == m.queueCached[c][m.fi[c]]
             kind == IF m.cancelled THEN "DELETE" ELSE "GET"
         IN  send([m EXCEPT !.pc[c] = "final"], Req(c, kind, id, FALSE, FALSE))

\* lines 235-237
leaveLoop(m, c) ==
    LET m1 == [m EXCEPT !.queueCached[c] = m.queue, !.fi[c] = 1,
                        !.allImages[c] = NoGens, !.iter[c] = NoIter]
    IN  finalFor(emptyQueue(m1), c)

\* uiStore.updateProgress (line 230): the progress bar shows something
updateProgress(m) == [m EXCEPT !.progress = 1]

\* lines 227-231, after the for-of: mergeObjects throws a TypeError on an
\* entry of queue.value that has no waitData (Object.entries(undefined))
afterFor(m, c) ==
    IF \E i \in 1..Len(m.queue) : m.waitData[m.queue[i]] = "undefined"
    THEN throw(m, c)
    ELSE [updateProgress(m) EXCEPT !.pc[c] = "sleep", !.iter[c] = NoIter]

\* the for-of over queue.value (lines 221-226) from position iter[c].idx:
\* entries that are done are skipped, the next one is checked
pollFor(m, c) ==
    LET it == m.iter[c]
        rest == {i \in it.idx..Len(it.arr) : m.waitData[it.arr[i]] # "done"}
    IN  IF rest = {} THEN afterFor(m, c)
        ELSE LET i == Min(rest)
                 id == it.arr[i]
             IN  send([m EXCEPT !.pc[c] = "check", !.iter[c].idx = i],
                      Req(c, "CHECK", id, FALSE, m.jobDone[id]))

\* the while condition (line 219) and what follows it
whileLoop(m, c) ==
    IF (\E i \in 1..Len(m.queue) : m.waitData[m.queue[i]] # "done") /\ ~m.cancelled
    THEN pollFor([m EXCEPT !.iter[c] = [arr |-> m.queue, live |-> TRUE, idx |-> 1]], c)
    ELSE leaveLoop(m, c)

\* ------------------------------------------------ the user's handlers
\* lines 119 and 123
maxDimensions(m) == IF m.allowLargerParams THEN 3072 ELSE 1024
maxSteps(m) == IF m.allowLargerParams THEN 500 ELSE 50

\* a variant whose cap is not inclusive
validateParamStrict(param, max, defaultValue) ==
    IF param >= max THEN [value |-> defaultValue, warned |-> 1]
    ELSE [value |-> param, warned |-> 0]

\* validateParam (lines 270-276): the value to set and the warnings raised
validateParam(param, max, defaultValue) ==
    IF param > max THEN [value |-> defaultValue, warned |-> 1]
    ELSE [value |-> param, warned |-> 0]

\* data.prompt.split(" ### "): the words before the first "###", and the
\* words between the first and the second one
Seps(words) == {i \in 1..Len(words) : words[i] = "###"}
splitFirst(words) ==
    IF Seps(words) = {} THEN words ELSE SubSeq(words, 1, Min(Seps(words)) - 1)
splitSecond(words) ==
    IF Seps(words) = {} THEN <<>>
    ELSE LET a == Min(Seps(words))
             later == {i \in Seps(words) : i > a}
             b == IF later = {} THEN Len(words) + 1 ELSE Min(later)
         IN  SubSeq(words, a + 1, b - 1)

\* generateText2Img (lines 281-302), for the fields of ImageData the model
\* keeps
generateText2Img(m, data) ==
    LET steps == validateParam(data.steps, maxSteps(m), defaultSteps)
        width == validateParam(data.width, maxDimensions(m), defaultWidth)
        height == validateParam(data.height, maxDimensions(m), defaultHeight)
    IN  [m EXCEPT
            !.generatorType = "Text2Img",
            !.prompt = IF data.prompt # <<>> THEN splitFirst(data.prompt) ELSE @,
            !.negativePrompt = IF data.prompt # <<>> THEN splitSecond(data.prompt) ELSE @,
            !.params = [steps |-> IF data.steps # 0 THEN steps.value ELSE @.steps,
                        width |-> IF data.width # 0 THEN width.value ELSE @.width,
                        height |-> IF data.height # 0 THEN height.value ELSE @.height],
            !.warned = @ + (IF data.steps # 0 THEN steps.warned ELSE 0)
                         + (IF data.width # 0 THEN width.warned ELSE 0)
                         + (IF data.height # 0 THEN height.warned ELSE 0),
            !.postProcessors = data.post_processing]

\* resetStore (lines 144-154): img2img.fileList is emptied twice,
\* inpainting.fileList is not touched
resetStore(m) ==
    [m EXCEPT !.params = getDefaultStore,
              !.inpainting = [@ EXCEPT !.sourceImage = <<>>, !.maskImage = <<>>],
              !.img2img = NoImage,
              !.images = <<>>]

\* generateImg2Img (lines 307-330), for the fields of the store
generateImg2Img(m, sourceimg) ==
    [m EXCEPT !.generatorType = "Img2Img",
              !.img2img.fileList = <<"Image">>,
              !.img2img.sourceImage = sourceimg,
              !.images = <<>>]

\* generateInpainting (lines 335-345)
generateInpainting(m, sourceimg) ==
    [m EXCEPT !.images = <<>>,
              !.inpainting.sourceImage = sourceimg,
              !.generatorType = "Inpainting"]

\* ------------------------------------------------- updateAvailableModels
Infinity == -1
RandomEntry == [value |-> "Random!", label |-> [text |-> "Random!", count |-> <<>>]]

\* the model lists GET /status/models answers with, and the documents at
\* MODELS_DB_URL (in key order)
ModelLists ==
    {<<[name |-> "stable_diffusion", count |-> 1, performance |-> 2, queued |-> 5, eta |-> 7],
       [name |-> "inpainting", count |-> 3, performance |-> 4, queued |-> 0, eta |-> 0]>>,
     <<[name |-> "anything", count |-> 2, performance |-> 1, queued |-> 1, eta |-> 3],
       [name |-> "stable_diffusion", count |-> 2, performance |-> 6, queued |-> 0, eta |-> 0]>>,
     <<>>}
DbDocs ==
    {<<[key |-> "stable_diffusion", name |-> "stable_diffusion"],
       [key |-> "anything", name |-> "anything"]>>,
     <<[key |-> "inpainting", name |-> "inpainting"]>>}

\* a variant of the sort that leaves the list as the server sent it
unsortedByCount(list) == list

\* resJSON.sort((a, b) => b.count - a.count) (line 516): a stable sort, by
\* insertion
RECURSIVE insertByCount(_, _)
insertByCount(sorted, el) ==
    IF sorted = <<>> THEN <<el>>
    ELSE IF Head(sorted).count >= el.count
         THEN <<Head(sorted)>> \o insertByCount(Tail(sorted), el)
         ELSE <<el>> \o sorted

RECURSIVE sortByCount(_)
sortByCount(list) ==
    IF list = <<>> THEN <<>>
    ELSE insertByCount(sortByCount(SubSeq(list, 1, Len(list) - 1)), list[Len(list)])

\* lines 517-520
modelEntries(resJSON) ==
    [i \in 1..Len(resJSON) |->
        [value |-> resJSON[i].name,
         label |-> [text |-> resJSON[i].name, count |-> <<resJSON[i].count>>]]]
    \o <<RandomEntry>>

\* lines 525-536: one record per key of the document
mergeModels(resJSON, dbJSON) ==
    [i \in 1..Len(dbJSON) |->
        LET name == dbJSON[i].name
            hits == {k \in 1..Len(resJSON) : resJSON[k].name = name}
        IN  IF hits # {}
            THEN [name |-> name, count |-> resJSON[Min(hits)].count,
                  performance |-> resJSON[Min(hits)].performance,
                  queued |-> resJSON[Min(hits)].queued,
                  eta |-> resJSON[Min(hits)].eta]
            ELSE [name |-> name, count |-> 0, performance |-> 0, queued |-> 0,
                  eta |-> Infinity]]

\* ---------------------------------------------------------------- actions
Init ==
    /\ generatorType = "Text2Img"
    /\ inpainting = NoImage
    /\ img2img = NoImage
    /\ allowLargerParams = FALSE
    /\ warned = 0
    /\ edits = 0
    /\ prompt \in {<<>>, <<"cat">>}
    /\ negativePrompt = <<>>
    /\ params = getDefaultStore
    /\ postProcessors = {}
    /\ generating = FALSE
    /\ cancelled = FALSE
    /\ images = <<>>
    /\ queue = <<>>
    /\ waitData = [j \in Jobs |-> "undefined"]
    /\ availableModels = <<>>
    /\ modelsJSON = <<>>
    /\ modelsData = <<>>
    /\ progress = 0
    /\ raised = 0
    /\ outputs = <<>>
    /\ pc = [c \in Calls |-> "idle"]
    /\ paramsCached = [c \in Calls |-> NoInput]
    /\ iter = [c \in Calls |-> NoIter]
    /\ queueCached = [c \in Calls |-> <<>>]
    /\ fi = [c \in Calls |-> 0]
    /\ allImages = [c \in Calls |-> NoGens]
    /\ result = [c \in Calls |-> <<>>]
    \* line 564: the store's setup calls updateAvailableModels()
    /\ net = {Req(0, "MODELS", 0, FALSE, FALSE)}
    /\ jobDone = [j \in Jobs |-> FALSE]
    /\ ticks = 0
    /\ everDone = [j \in Jobs |-> FALSE]
    /\ cancelSeen = [c \in Calls |-> FALSE]
    /\ raisedBy = [c \in 0..MaxCalls |-> 0]
    /\ cancelJobs = [c \in Calls |-> {}]
    /\ deleted = {}
    /\ invalidBy = [c \in 0..MaxCalls |-> 0]
    /\ posts = [c \in Calls |-> 0]
    /\ atCall = [c \in Calls |-> NoStore]
    /\ served = [c \in Calls |-> NoGens]
    /\ editedIn = {}
    /\ loaded = <<>>
    /\ reported = <<>>
    /\ merged = <<>>

\* an edit of the user: the history keeps the calls that were in flight
edit(m) ==
    [m EXCEPT !.edits = @ + 1, !.loaded = <<>>,
              !.editedIn = @ \cup {c \in Calls :
                                      m.pc[c] \in {"submit", "check", "sleep", "final"}}]

\* the user types a prompt, a negative prompt, moves the steps slider,
\* picks post-processors (v-model on the store's refs)
SetPrompt(p) ==
    /\ edits < MaxEdits
    /\ p # prompt
    /\ Commit(edit([State EXCEPT !.prompt = p]))

SetNegativePrompt(p) ==
    /\ edits < MaxEdits
    /\ p # negativePrompt
    /\ Commit(edit([State EXCEPT !.negativePrompt = p]))

SetSteps(v) ==
    /\ edits < MaxEdits
    /\ v # params.steps
    /\ Commit(edit([State EXCEPT !.params.steps = v]))

SetPostProcessors(pp) ==
    /\ edits < MaxEdits
    /\ pp # postProcessors
    /\ Commit(edit([State EXCEPT !.postProcessors = pp]))

\* the history keeps the entry generateText2Img was last called with, and
\* the number of warnings raised before the call, until the next edit
load(m, data) == [m EXCEPT !.loaded = <<[data |-> data, warned |-> warned]>>]

\* the user sends a gallery entry to text2img
LoadText2Img(i) ==
    /\ edits < MaxEdits
    /\ i \in 1..Len(outputs)
    /\ Commit(load(edit(generateText2Img(State, outputs[i])), outputs[i]))

\* the user resets the store
ResetStore ==
    /\ edits < MaxEdits
    /\ Commit(edit(resetStore(State)))

\* the user sends a gallery entry to img2img or to inpainting
SendToImg2Img(sourceimg) ==
    /\ edits < MaxEdits
    /\ Commit(edit(generateImg2Img(State, sourceimg)))

SendToInpainting(sourceimg) ==
    /\ edits < MaxEdits
    /\ Commit(edit(generateInpainting(State, sourceimg)))

\* the user picks a file in the upload of the inpainting tab, which is bound
\* to inpainting.fileList (the store returns the ref, line 577)
UploadInpainting(file) ==
    /\ edits < MaxEdits
    /\ Commit(edit([State EXCEPT !.inpainting.fileList = <<file>>]))

\* the user switches the 'Larger Values' option (options store)
SetAllowLarger(b) ==
    /\ edits < MaxEdits
    /\ Commit(edit([State EXCEPT !.allowLargerParams = b]))

\* the user sends to text2img an entry of a gallery kept from earlier
\* sessions
LoadEntry(data) ==
    /\ edits < MaxEdits
    /\ Commit(load(edit(generateText2Img(State, data)), data))

\* the user presses cancel: cancelled = true
UserCancel ==
    /\ ~cancelled
    /\ Commit([State EXCEPT
           !.cancelled = TRUE,
           !.cancelSeen = [c \in Calls |-> @[c] \/ pc[c] \in {"check", "sleep"}],
           !.cancelJobs = [c \in Calls |->
                              IF pc[c] \in {"check", "sleep"}
                              THEN @[c] \cup {queue[i] : i \in 1..Len(queue)}
                              ELSE @[c]]])

\* generateImage up to its first await (lines 159-211); calls are numbered
\* in the order they are made
generateImage(c) ==
    /\ pc[c] = "idle"
    /\ \A b \in Calls : b < c => pc[b] # "idle"
    /\ Commit(IF prompt = <<>>
              THEN leave(State, c, "empty", <<>>)
              ELSE send([State EXCEPT !.paramsCached[c] = cacheParams(State),
                                      !.atCall[c] = [prompt |-> prompt,
                                          negativePrompt |-> negativePrompt,
                                          params |-> params,
                                          postProcessors |-> postProcessors],
                                      !.generating = TRUE,
                                      !.posts[c] = @ + 1,
                                      !.pc[c] = "submit"],
                        [Req(c, "POST", c, FALSE, FALSE)
                            EXCEPT !.data = cacheParams(State)]))

\* the answer to the POST arrives (lines 211-219 and on)
SubmitResponse(c, resp) ==
    /\ pc[c] = "submit"
    /\ \E r \in Awaited(c) :
        LET ret == fetchNewID(resp)
            m1 == handled([State EXCEPT !.net = @ \ {r}], c, resp, goodSubmit, ret)
        IN  Commit(CASE ret = "throw" -> throw(m1, c)
                     [] ret = "false" -> generationFailed(m1, c)
                     [] OTHER -> whileLoop(pushQueue([m1 EXCEPT !.images = <<>>], c), c))

\* the answer to a check arrives (lines 223-232 and on); dn is the done
\* field the server put in it: the job's state at some moment between the
\* sending of the request and now
CheckResponse(c, resp, dn) ==
    /\ pc[c] = "check"
    /\ \E r \in Awaited(c) :
        /\ dn \in {r.done, jobDone[r.job]}
        /\ LET ret == checkImage(State, resp)
               m1 == handled([State EXCEPT !.net = @ \ {r}], c, resp, goodStatus, ret)
               status == IF ret = "true" /\ dn THEN "done" ELSE "waiting"
               m2 == [m1 EXCEPT !.waitData[r.job] = status,
                                !.everDone[r.job] = @ \/ status = "done",
                                !.iter[c].idx = @ + 1]
           IN  Commit(CASE ret = "throw" -> throw(m1, c)
                        [] ret = "false" -> generationFailed(m1, c)
                        [] OTHER -> pollFor(m2, c))

\* sleep(500) is over (line 231): the while condition is evaluated again
Wake(c) ==
    /\ pc[c] = "sleep"
    /\ Commit(whileLoop(State, c))

\* the answer to the DELETE or GET of the final loop arrives (lines
\* 240-246), carrying n generations
FinalResponse(c, resp, n) ==
    /\ pc[c] = "final"
    /\ \E r \in Awaited(c) :
        LET ret == IF r.kind = "DELETE" THEN cancelImage(resp)
                   ELSE getImageStatus(resp)
            m1 == handled([State EXCEPT !.net = @ \ {r}], c, resp, goodStatus, ret)
            finalImages == [k \in 1..n |-> [job |-> r.job, k |-> k]]
            m2 == [m1 EXCEPT !.allImages[c] = @ \o finalImages, !.fi[c] = @ + 1,
                             !.served[c] = @ \o
                                 [k \in 1..n |-> [job |-> r.job, k |-> k, kind |-> r.kind]]]
        IN  Commit(CASE ret = "throw" -> throw(m1, c)
                     [] ret = "false" -> generationFailed(m1, c)
                     [] OTHER -> finalFor(m2, c))

\* the answer to a DELETE of generationFailed arrives: cancelImage
\* validates it and nobody reads what it returns
DetachedResponse(r, resp) ==
    /\ r \in net
    /\ r.detached
    /\ Commit(handled([State EXCEPT !.net = @ \ {r}], r.call, resp, goodStatus,
                      cancelImage(resp)))

\* the server finishes a submitted job
ServerFinish(j) ==
    /\ posts[j] = 1
    /\ ~jobDone[j]
    /\ Commit([State EXCEPT !.jobDone[j] = TRUE])

\* setInterval(updateAvailableModels, ...) fires (line 565)
Tick ==
    /\ ticks < MaxTicks
    /\ Commit(send([State EXCEPT !.ticks = @ + 1],
                    Req(0, "MODELS", ticks + 1, FALSE, FALSE)))

\* updateAvailableModels, lines 513-521: the model list arrives
ModelsResponse(resp, list) ==
    \E r \in net :
        /\ r.kind = "MODELS"
        /\ LET ret == IF resp.body = "none" THEN "throw"
                      ELSE validateResponse(resp, goodStatus)
               m1 == handled([State EXCEPT !.net = @ \ {r}], 0, resp, goodStatus, ret)
               resJSON == sortByCount(list)
           IN  Commit(IF ret = "true"
                      THEN send([m1 EXCEPT !.availableModels = modelEntries(resJSON),
                                           !.reported = <<list>>],
                                [Req(0, "DB", r.job, FALSE, FALSE) EXCEPT !.data = resJSON])
                      ELSE m1)

\* updateAvailableModels, lines 522-536: the document arrives (it is not
\* validated)
DbResponse(dbJSON) ==
    \E r \in net :
        /\ r.kind = "DB"
        /\ Commit([State EXCEPT !.net = @ \ {r},
                                !.modelsJSON = dbJSON,
                                !.modelsData = mergeModels(r.data, dbJSON),
                                !.merged = <<[list |-> r.data, doc |-> dbJSON]>>])

\* the document is no JSON: dbResponse.json() rejects (line 522) and the
\* call ends there
DbRejected ==
    \E r \in net :
        /\ r.kind = "DB"
        /\ Commit([State EXCEPT !.net = @ \ {r}])

Next ==
    \/ UserCancel
    \/ \E c \in Calls : generateImage(c)
    \/ \E c \in Calls, resp \in Responses : SubmitResponse(c, resp)
    \/ \E c \in Calls, resp \in Responses, dn \in BOOLEAN : CheckResponse(c, resp, dn)
    \/ \E c \in Calls : Wake(c)
    \/ \E c \in Calls, resp \in Responses, n \in 0..MaxGen : FinalResponse(c, resp, n)
    \/ \E r \in net, resp \in Responses : DetachedResponse(r, resp)
    \/ \E j \in Jobs : ServerFinish(j)

Spec == Init /\ [][Next]_vars

\* One generateImage call at a time, with the user editing the store while
\* it runs.
NextEdit ==
    \/ \E p \in Prompts : SetPrompt(p)
    \/ \E p \in NegativePrompts : SetNegativePrompt(p)
    \/ \E v \in StepsValues : SetSteps(v)
    \/ \E pp \in SUBSET AllPostProcessors : SetPostProcessors(pp)
    \/ \E i \in 1..(MaxCalls * MaxGen) : LoadText2Img(i)
    \/ ResetStore
    \/ UserCancel
    \/ \E c \in 1..EditCalls : generateImage(c)
    \/ \E c \in Calls, resp \in Responses : SubmitResponse(c, resp)
    \/ \E c \in Calls, resp \in Responses, dn \in BOOLEAN : CheckResponse(c, resp, dn)
    \/ \E c \in Calls : Wake(c)
    \/ \E c \in Calls, resp \in Responses, n \in 0..MaxGen : FinalResponse(c, resp, n)
    \/ \E r \in net, resp \in Responses : DetachedResponse(r, resp)
    \/ \E j \in Jobs : ServerFinish(j)

SpecEdit == Init /\ [][NextEdit]_vars

\* The handlers that prepare the store, without generations. The entries
\* of the gallery: 0 stands for a field the entry does not have.
SourceImages == {<<"png">>}
EntrySteps == {0, defaultSteps, 50, 51, 500, 501}
EntryDims == {0, defaultWidth, 1024, 1088, 3072, 3136}
Entries ==
    [job : {0}, k : {0}, prompt : {<<"cat">>, <<"cat", "###", "blurry">>},
     steps : EntrySteps, width : EntryDims, height : {0, 1024, 1088},
     post_processing : {{}}]

NextForms ==
    \/ \E data \in Entries : LoadEntry(data)
    \/ \E b \in BOOLEAN : SetAllowLarger(b)
    \/ \E src \in SourceImages : SendToImg2Img(src)
    \/ \E src \in SourceImages : SendToInpainting(src)
    \/ \E file \in SourceImages : UploadInpainting(file[1])
    \/ ResetStore

SpecForms == Init /\ [][NextForms]_vars

\* The timer and its requests, beside one generation whose requests get
\* valid responses.
NextModels ==
    \/ Tick
    \/ \E resp \in Responses, list \in ModelLists : ModelsResponse(resp, list)
    \/ \E dbJSON \in DbDocs : DbResponse(dbJSON)
    \/ DbRejected
    \/ UserCancel
    \/ \E c \in 1..EditCalls : generateImage(c)
    \/ \E c \in Calls : SubmitResponse(c, [status |-> goodSubmit, body |-> "object"])
    \/ \E c \in Calls, dn \in BOOLEAN :
          CheckResponse(c, [status |-> goodStatus, body |-> "object"], dn)
    \/ \E c \in Calls : Wake(c)
    \/ \E c \in Calls, n \in 0..MaxGen :
          FinalResponse(c, [status |-> goodStatus, body |-> "object"], n)
    \/ \E j \in Jobs : ServerFinish(j)

SpecModels == Init /\ [][NextModels]_vars

\* Overlapping calls, every request answered by a valid response.
OkSubmit == [status |-> goodSubmit, body |-> "object"]
OkStatus == [status |-> goodStatus, body |-> "object"]

NextOverlap ==
    \/ \E p \in Prompts : SetPrompt(p)
    \/ UserCancel
    \/ \E c \in Calls : generateImage(c)
    \/ \E c \in Calls : SubmitResponse(c, OkSubmit)
    \/ \E c \in Calls, dn \in BOOLEAN : CheckResponse(c, OkStatus, dn)
    \/ \E c \in Calls : Wake(c)
    \/ \E c \in Calls, n \in 0..MaxGen : FinalResponse(c, OkStatus, n)
    \/ \E j \in Jobs : ServerFinish(j)

SpecOverlap == Init /\ [][NextOverlap]_vars

\* The same without edits, and fair: every request is answered and every
\* sleep ends. Nothing obliges the user to call or to cancel, nor the
\* server to finish a job.
NextLive ==
    \/ UserCancel
    \/ \E c \in Calls : generateImage(c)
    \/ \E c \in Calls : SubmitResponse(c, OkSubmit)
    \/ \E c \in Calls, dn \in BOOLEAN : CheckResponse(c, OkStatus, dn)
    \/ \E c \in Calls : Wake(c)
    \/ \E c \in Calls, n \in 0..MaxGen : FinalResponse(c, OkStatus, n)
    \/ \E j \in Jobs : ServerFinish(j)

\* a response or the end of a sleep is due to call c exactly when it waits
\* for one
Pending(c) == pc[c] = "sleep" \/ Awaited(c) # {}

PcValues ==
    {"idle", "submit", "check", "sleep", "final", "done", "failed", "thrown", "empty"}

\* call c moves on to another await or returns: what a finite number of
\* responses to c comes to, as its for loops are over finite arrays
Advance(c) ==
    /\ Pending(c)
    /\ pc' \in [Calls -> PcValues]
    /\ pc'[c] # pc[c]

SpecLive ==
    Init /\ [][NextLive]_vars /\ \A c \in Calls : WF_pc(Advance(c))

\* a call that is not in flight: never made, or returned
Returned(c) == pc[c] \in {"idle", "empty", "done", "failed"}

\* ------------------------------------------------------------- properties
\* the requests generateImage call c awaits (not the detached DELETEs of
\* generationFailed)
RequestsOf(c) == {r \in net : r.call = c /\ ~r.detached}

\* C1: a final-result GET for a job is in flight only after a check of that
\* job has answered done = true: a job that is not yet done leaves polling
\* with a DELETE or because of an invalid response, never with a GET.
C1_GetOnlyAfterDone ==
    \A r \in net : r.kind = "GET" => everDone[r.job]

\* C2: once cancelled was set while call c was polling, c sends no
\* final-result GET for the jobs that were in the queue then, and when c has
\* returned without an invalid response a DELETE has been sent for each of
\* them and the queue no longer holds them.
C2_CancelDeletesQueue ==
    \A c \in Calls :
        /\ \A r \in net : r.kind = "GET" => r.job \notin cancelJobs[c]
        /\ (/\ \A d \in Calls : Returned(d)
            /\ \A w \in 0..MaxCalls : invalidBy[w] = 0)
           => /\ cancelJobs[c] \subseteq deleted
              /\ \A i \in 1..Len(queue) : queue[i] \notin cancelJobs[c]

\* C3: every response that is not valid (unexpected status, or no JSON
\* body) raises exactly one error message and makes the call it belongs to
\* fail; valid responses raise none.
C3_OneErrorPerInvalidResponse ==
    /\ \A w \in 0..MaxCalls : raisedBy[w] = invalidBy[w]
    /\ \A c \in Calls : invalidBy[c] > 0 => pc[c] = "failed"

\* C4: a generateImage call that failed has shown exactly one error
\* message, the cancel requests of generationFailed included.
C4_OneErrorPerFailedCall ==
    \A c \in Calls : pc[c] = "failed" => raisedBy[c] = 1

\* C8: once cancelled was set while call c was polling, c starts no further
\* poll iteration: when its sleep ends it leaves the loop.
C8_NoIterationAfterCancel ==
    [][\A c \in Calls :
          (cancelSeen[c] /\ pc[c] = "sleep") => pc'[c] # "check"]_vars

\* C9: a call sends exactly one submit POST (none with an empty prompt), and
\* after an invalid response to one of its requests it has no submit, check
\* or final-status request in flight.
C9_OnePostNoRetry ==
    \A c \in Calls :
        /\ posts[c] = IF pc[c] \in {"idle", "empty"} THEN 0 ELSE 1
        /\ invalidBy[c] > 0 =>
              \A r \in RequestsOf(c) : r.kind \notin {"POST", "CHECK", "GET"}

\* what a gallery entry for generation gen is when it carries the prompt,
\* negative prompt and parameters of the store st
EntryFor(gen, st) ==
    LET x4 == IF "RealESRGAN_x4plus" \in st.postProcessors THEN upscale ELSE 1
    IN  [job |-> gen.job, k |-> gen.k,
         prompt |-> IF st.negativePrompt = <<>> THEN st.prompt
                    ELSE st.prompt \o <<"###">> \o st.negativePrompt,
         steps |-> st.params.steps,
         width |-> st.params.width * x4, height |-> st.params.height * x4,
         post_processing |-> st.postProcessors]

\* C5: with overlapping calls every generation is in the gallery at most
\* once, and its entry carries the prompt and parameters of the call that
\* submitted its job.
C5_CallsDoNotInterfere ==
    /\ \A i \in 1..Len(outputs) :
          outputs[i] = EntryFor(outputs[i], atCall[outputs[i].job])
    /\ \A i, k \in 1..Len(outputs) :
          (outputs[i].job = outputs[k].job /\ outputs[i].k = outputs[k].k) => i = k

C10_Terminates ==
    \A c \in Calls :
        (\/ <>[](\A j \in Jobs : posts[j] = 1 => jobDone[j])
         \/ <>cancelSeen[c])
        => <>[](Returned(c) /\ ((\A d \in Calls : Returned(d)) => ~generating))

\* C11: a call that got an invalid response to one of its requests and has
\* returned has returned the empty list, having added nothing to the output
\* collection.
C11_FailedCallAddsNothing ==
    \A c \in Calls :
        (invalidBy[c] > 0 /\ pc[c] \in {"done", "failed"}) => result[c] = <<>>

\* C12: in every state where a call awaits a check, checkImage answers
\* false to a response with a JSON body and an unexpected status or an error
\* body, and the server's status to a valid one.
C12_CheckImageReportsInvalid ==
    \A c \in Calls, resp \in Responses :
        (pc[c] = "check" /\ resp.body \notin {"null", "none"}) =>
            checkImage(State, resp) =
                (IF ValidResponse(resp, goodStatus) THEN "true" ELSE "false")

\* C13: after resetStore the parameters are the defaults, the current images
\* are empty, and img2img and inpainting are as they were at the start.
C13_ResetRestoresDefaults ==
    LET m == resetStore(State)
    IN  /\ m.params = getDefaultStore
        /\ m.images = <<>>
        /\ m.img2img = NoImage
        /\ m.inpainting = NoImage

\* the number of fields of entry d, among those it has, above their caps
Exceeding(d) ==
    (IF d.steps > maxSteps(State) THEN 1 ELSE 0)
    + (IF d.width > maxDimensions(State) THEN 1 ELSE 0)
    + (IF d.height > maxDimensions(State) THEN 1 ELSE 0)

\* what generateText2Img is to make of value v under cap max
Capped(v, max, default) == IF v > max THEN default ELSE v

\* C14: after generateText2Img, steps, width and height, where the entry has
\* them, are the entry's value when it is within the cap and the default
\* when it is not, so never above the cap; one warning was raised for each
\* value above its cap, and none for the others.
C14_LoadRespectsCaps ==
    \A i \in 1..Len(loaded) :
        LET d == loaded[i].data
        IN  /\ d.steps # 0 =>
                 /\ params.steps = Capped(d.steps, maxSteps(State), 30)
                 /\ params.steps <= maxSteps(State)
            /\ d.width # 0 =>
                 /\ params.width = Capped(d.width, maxDimensions(State), 512)
                 /\ params.width <= maxDimensions(State)
            /\ d.height # 0 =>
                 /\ params.height = Capped(d.height, maxDimensions(State), 512)
                 /\ params.height <= maxDimensions(State)
            /\ warned = loaded[i].warned + Exceeding(d)

\* C14's case: an entry with steps above the cap and a width within it was
\* loaded
C14_Witness ==
    \E i \in 1..Len(loaded) :
        /\ loaded[i].data.steps > maxSteps(State)
        /\ loaded[i].data.width # 0
        /\ loaded[i].data.width <= maxDimensions(State)
        /\ loaded[i].data.width # defaultWidth
        /\ warned > 0

\* the entries of availableModels before the last one
Listed == SubSeq(availableModels, 1, Len(availableModels) - 1)

\* C15: availableModels is empty before the first valid model list; after
\* one it holds one entry per model of the list the server sent last, by
\* count descending, then 'Random!' alone in last position. modelsData is
\* empty before the first document; after one it holds one record per model
\* of the document, with the server's figures when the list of that call
\* has the model, and count 0, performance 0, queued 0 and an infinite eta
\* when it has not. A step that handles an invalid response of the timer's
\* requests changes neither.
C15_ModelsMerged ==
    /\ [](/\ reported = <<>> => availableModels = <<>>
          /\ \A r \in 1..Len(reported) :
                LET list == reported[r]
                IN  /\ Len(availableModels) = Len(list) + 1
                    /\ availableModels[Len(availableModels)].value = "Random!"
                    /\ \A i \in 1..Len(list) :
                          /\ Listed[i].value # "Random!"
                          /\ Cardinality({k \in 1..Len(list) :
                                 /\ Listed[k].value = list[i].name
                                 /\ Listed[k].label.count = <<list[i].count>>}) = 1
                    /\ \A i, k \in 1..Len(list) :
                          i < k => Listed[i].label.count[1] >= Listed[k].label.count[1]
          /\ merged = <<>> => modelsData = <<>>
          /\ \A r \in 1..Len(merged) :
                LET list == merged[r].list
                    doc == merged[r].doc
                IN  /\ Len(modelsData) = Len(doc)
                    /\ \A i \in 1..Len(doc) :
                          /\ modelsData[i].name = doc[i].name
                          /\ \A k \in 1..Len(list) :
                                list[k].name = doc[i].name =>
                                    /\ modelsData[i].count = list[k].count
                                    /\ modelsData[i].performance = list[k].performance
                                    /\ modelsData[i].eta = list[k].eta
                                    /\ modelsData[i].queued = list[k].queued
                          /\ (\A k \in 1..Len(list) : list[k].name # doc[i].name) =>
                                    /\ modelsData[i].count = 0
                                    /\ modelsData[i].performance = 0
                                    /\ modelsData[i].queued = 0
                                    /\ modelsData[i].eta = Infinity)
    /\ [][invalidBy'[0] > invalidBy[0] =>
              /\ availableModels' = availableModels
              /\ modelsData' = modelsData]_vars

\* C15's case: the last list came unsorted, an invalid model list was
\* handled, and the document has a model the server reports and one it does
\* not
C15_Witness ==
    /\ reported # <<>>
    /\ \E i \in 1..Len(reported[1]) - 1 : reported[1][i].count < reported[1][i + 1].count
    /\ invalidBy[0] > 0
    /\ \E i, k \in 1..Len(modelsData) :
          modelsData[i].eta = Infinity /\ modelsData[k].count > 0

\* what the timer's requests are: the model list and the document
TimerStep == \E r \in net \ net' : r.kind \in {"MODELS", "DB"}

\* a call that has started submitting and has neither returned nor thrown
InFlight(c) == pc[c] \in {"submit", "check", "sleep", "final"}

\* C19: while a generation is in flight, a step of updateAvailableModels,
\* whatever the response, leaves generating, cancelled, the queue, the
\* current images and the progress as they are.
C19_TimerFrame ==
    [][(TimerStep /\ \E c \in Calls : InFlight(c))
       => UNCHANGED <<generating, cancelled, queue, images, progress>>]_vars

\* C16: when a call returns, cancelled is false; when it returns from
\* generationDone, every generation a DELETE response gave it is, in its
\* place among the generations of the call, in the list the call returns and
\* in what the call appends to the output collection, as the entry a
\* generation of a completed job would be.
C16_CancelledGenerationsKept ==
    [][\A c \in Calls :
          /\ (InFlight(c) /\ pc'[c] \in {"done", "failed"}) => ~cancelled'
          /\ (InFlight(c) /\ pc'[c] = "done") =>
                /\ Len(result'[c]) = Len(served'[c])
                /\ Len(outputs') = Len(outputs) + Len(served'[c])
                /\ \A i \in 1..Len(served'[c]) :
                      served'[c][i].kind = "DELETE" =>
                          /\ result'[c][i] = EntryFor(served'[c][i], atCall[c])
                          /\ outputs'[Len(outputs) + i] = result'[c][i]
      ]_vars

\* C16's case: a call cancelled while polling returned an entry for a
\* generation that a DELETE response gave it
C16_Witness ==
    \E c \in Calls :
        /\ pc[c] = "done"
        /\ cancelSeen[c]
        /\ ~cancelled
        /\ \E i \in 1..Len(served[c]) :
              /\ served[c][i].kind = "DELETE"
              /\ result[c][i] = EntryFor(served[c][i], atCall[c])
              /\ \E k \in 1..Len(outputs) : outputs[k] = result[c][i]

C18_GeneratingWhileInFlight ==
    (\E c \in Calls : InFlight(c)) => generating

====
